---- MODULE Spec2Model ----
(***************************************************************************)
(* Teardown of a compose project: composeService.Down and its helpers in   *)
(* local/compose/down.go.                                                   *)
(*                                                                         *)
(* One Down invocation is modelled.  Its inputs (projectName, the optional *)
(* options.Project, options.RemoveOrphans), the labels of the containers   *)
(* the runtime knows and the outcome of every runtime call are chosen      *)
(* nondeterministically.  Goroutines started with errgroup.Go are units    *)
(* whose steps interleave freely.                                          *)
(***************************************************************************)
EXTENDS Integers, Sequences, FiniteSets, TLC

\* Bounds of the model.
MaxContainers == 2
MaxNetworks == 2

ContainerIds == 1..MaxContainers
NetworkIds == 1..MaxNetworks

ProjectNames == {"shop", "blog"}
\* The projectName argument (the names are interchangeable, so one is enough).
ArgNames == {"shop"}
\* Values of the service-name label found on containers.
ServiceLabels == {"web", "db", "cache"}

\* The resources of the project the runtime may hold during the call, as
\* identifiers: many containers and at most one network, or at most one
\* container and many networks (the two phases of Down follow each other and
\* share no state but the error).
Worlds ==
  {[cs |-> ContainerIds, ns |-> {n \in NetworkIds : n <= 1}],
   [cs |-> {c \in ContainerIds : c <= 1}, ns |-> NetworkIds]}

VARIABLES
  world,         \* the resources the runtime may hold (see Worlds)
  pc,            \* position of the Down goroutine
  projectName,   \* argument projectName
  removeOrphans, \* options.RemoveOrphans
  project,       \* options.Project (NoProject = nil)
  svcLabel,      \* the service-name labels read so far, per container
  containers,    \* local variable containers of Down
  others,        \* result "others" of the split of the running service action
  remaining,     \* services the dependency walk has not finished yet
  current,       \* service whose action is running ("" = none, "<orphans>")
  batch,         \* parameter containers of the running removeContainers
  loopI,         \* index of the for loop of removeContainers (0 = not entered)
  unit,          \* per loop index: goroutine started by eg.Go in removeContainers
  egErr,         \* first error recorded by the running errgroup
  networks,      \* result of NetworkList
  netUnit,       \* per network: goroutine started by eg.Go in Down
  result,        \* value returned by Down (Running while it has not returned)
  events,        \* per container: events emitted under its event name, in order
  stopReqs,      \* per container: number of ContainerStop requests issued
  removeReqs,    \* per container: number of ContainerRemove requests issued
  netReqs,       \* per network: number of removal requests issued
  inflight,      \* per container: runtime calls issued and not yet returned
  stopFailed,    \* containers on which a ContainerStop call returned an error
  removeFailed,  \* containers on which a ContainerRemove call returned an error
  removed,       \* containers whose ContainerRemove call succeeded
  firstFailure,  \* error of the container unit that failed first (Nil = none)
  doneServices,  \* services whose teardown action has returned nil
  handed,        \* sequence handed to the orphan teardown (NotCalled before)
  reconEmpty,    \* the listing of projectFromContainerLabels was empty
  sentinelTaken, \* projectFromContainerLabels returned from lines 150-157
  failed,        \* the queries that have failed: "reconlist", "options", "parse",
                 \* "list", "netlist"
  snapshot,      \* result of Down's ContainerList (NotCalled before)
  netListed,     \* NetworkList has been called
  netFailed,     \* networks whose removal returned an error other than not-found
  netAbsent,     \* networks whose removal was answered "not found"
  lateReqs,      \* networks whose removal was requested after another's had failed
  containerFilter, \* project name given to projectFilter for Down's ContainerList
  networkFilter  \* project name given to projectFilter for NetworkList

vars == <<world, pc, projectName, removeOrphans, project, svcLabel, containers, others,
          remaining, current, batch, loopI, unit, egErr, networks, netUnit,
          result, events, stopReqs, removeReqs, netReqs, inflight, stopFailed,
          removeFailed, removed, firstFailure, doneServices, handed, reconEmpty, sentinelTaken,
          failed, snapshot, netListed,
          netFailed, netAbsent, lateReqs, containerFilter, networkFilter>>

----------------------------------------------------------------------------
\* Errors.  An error value is a record; Nil is Go's nil error.

Nil == [kind |-> "nil", id |-> 0]
Running == [kind |-> "running", id |-> 0]
LookupError == [kind |-> "lookup", id |-> 0]
NetLookupError == [kind |-> "netlookup", id |-> 0]
OptionsError == [kind |-> "options", id |-> 0]
ParseError == [kind |-> "parse", id |-> 0]
CycleError == [kind |-> "cycle", id |-> 0]
StopError(c) == [kind |-> "stop", id |-> c]
RemoveError(c) == [kind |-> "remove", id |-> c]
NetworkError(n) == [kind |-> "network", id |-> n]

\* Lifecycle events (progress.StoppingEvent, ...).
Stopping == "stopping"
Stopped == "stopped"
Removing == "removing"
Removed == "removed"
ErrorStopping == "error: Error while Stopping"
ErrorRemoving == "error: Error while Removing"

----------------------------------------------------------------------------
\* Projects.

NoProject == [name |-> "", services |-> <<>>, nil |-> TRUE]

Service(n, deps) == [name |-> n, deps |-> deps]

MkProject(n, svcs) == [name |-> n, services |-> svcs, nil |-> FALSE]

\* Service lists a declaration can hold: up to two services, any dependency
\* edges between them (the list with both edges is cyclic).
ServiceLists ==
  {<<>>, <<Service("web", {})>>, <<Service("db", {})>>}
  \cup {<<Service("web", dw), Service("db", dd)>> :
          dw \in SUBSET {"db"}, dd \in SUBSET {"web"}}

Projects(n) == {MkProject(n, s) : s \in ServiceLists}

ServiceNamesOf(p) == {p.services[i].name : i \in 1..Len(p.services)}

DepsOf(p, s) ==
  UNION {p.services[i].deps : i \in {j \in 1..Len(p.services) : p.services[j].name = s}}

\* Services that depend on s.
DependentsOf(p, s) == {a \in ServiceNamesOf(p) : s \in DepsOf(p, a)}

RECURSIVE Reach(_, _, _)
Reach(p, from, n) ==
  IF n = 0 THEN from
  ELSE Reach(p, from \cup UNION {DepsOf(p, a) : a \in from}, n - 1)

HasCycle(p) ==
  \E s \in ServiceNamesOf(p) :
     s \in Reach(p, DepsOf(p, s), Cardinality(ServiceNamesOf(p)))

----------------------------------------------------------------------------
\* Sequences of containers.

RECURSIVE SortedSeq(_)
SortedSeq(S) ==
  IF S = {} THEN <<>>
  ELSE LET m == CHOOSE x \in S : \A y \in S : x <= y
       IN <<m>> \o SortedSeq(S \ {m})

Range(s) == {s[i] : i \in 1..Len(s)}

\* Results ContainerList can return: the containers matching the filter that
\* exist at the time of the call, in listing order, with their service-name
\* labels.  A label that has been read before is still the same.
Listings == {SortedSeq(S) : S \in SUBSET world.cs}

ContainerList ==
  UNION {{[listed |-> l, labels |-> lab] :
            lab \in {f \in [Range(l) -> ServiceLabels] :
                      \A c \in Range(l) \cap DOMAIN svcLabel : f[c] = svcLabel[c]}} :
         l \in Listings}

\* The labels read once those of the snapshot snap have been.
Seen(snap) ==
  [c \in DOMAIN svcLabel \cup Range(snap.listed) |->
     IF c \in Range(snap.listed) THEN snap.labels[c] ELSE svcLabel[c]]

isService(name, c) == svcLabel[c] = name

split(cs, name) ==
  <<SelectSeq(cs, LAMBDA c : isService(name, c)),
    SelectSeq(cs, LAMBDA c : ~isService(name, c))>>

----------------------------------------------------------------------------
\* Recovering the declaration paths from the config-files label.  A label
\* value is a sequence of characters.

\* strings.Split(s, ","): the pieces between the commas (one piece, the empty
\* one, for the empty string).
RECURSIVE Split(_)
Split(s) ==
  IF \E i \in 1..Len(s) : s[i] = ","
  THEN LET i == CHOOSE k \in 1..Len(s) :
                  s[k] = "," /\ \A j \in 1..(k - 1) : s[j] # ","
       IN <<SubSeq(s, 1, i - 1)>> \o Split(SubSeq(s, i + 1, Len(s)))
  ELSE <<s>>

RECURSIVE StripSlashes(_)
StripSlashes(p) ==
  IF Len(p) > 0 /\ p[Len(p)] = "/" THEN StripSlashes(SubSeq(p, 1, Len(p) - 1))
  ELSE p

\* filepath.Base: the last element of the path; "." for the empty path and
\* "/" for a path of slashes only.
Base(p) ==
  IF p = <<>> THEN <<".">>
  ELSE LET q == StripSlashes(p)
       IN IF q = <<>> THEN <<"/">>
          ELSE IF \E i \in 1..Len(q) : q[i] = "/"
               THEN LET i == CHOOSE k \in 1..Len(q) :
                               q[k] = "/" /\ \A j \in (k + 1)..Len(q) : q[j] # "/"
                    IN SubSeq(q, i + 1, Len(q))
               ELSE q

\* Values of the config-files label of the first listed container.
ConfigLabels ==
  {<<"-">>, <<"f">>, <<"d", "/", "-">>, <<"-", ",", "f">>, <<"f", ",", "-">>,
   <<"d", "/", "f">>, <<>>}

\* loadProjectOptionsFromLabels: the base-named paths, or the error of
\* cli.NewProjectOptions.
ConfigPaths(label) == [i \in 1..Len(Split(label)) |-> Base(Split(label)[i])]

loadProjectOptionsFromLabels(label) ==
  {[paths |-> ConfigPaths(label), err |-> Nil],
   [paths |-> <<>>, err |-> OptionsError]}

IsSentinel(paths) == paths[1] = <<"-">>

\* Lines 150-157: the services of the fake project.
SentinelServices(snap) ==
  [i \in 1..Len(snap.listed) |-> Service(snap.labels[snap.listed[i]], {})]

\* What projectFromContainerLabels returns; sentinel tells whether it took
\* lines 150-157, where the service-name labels of the listing are read.
Got(p, e, sentinel) == [project |-> p, err |-> e, sentinel |-> sentinel]

\* fakeProject without its Name field set.
fakeProjectUnnamed(name) == MkProject("", <<>>)

\* Lines 140-142.
fakeProject(name) == MkProject(name, <<>>)

\* The query an error comes from.
QueryOf(err) == CASE err = OptionsError -> "options"
                  [] err = ParseError -> "parse"
                  [] OTHER -> "reconlist"

\* cli.ProjectFromOptions: a parsed project of that name, or a parse error.
ProjectFromOptions(name) ==
  {Got(p, Nil, FALSE) : p \in Projects(name)}
  \cup {Got(NoProject, ParseError, FALSE)}

\* projectFromContainerLabels: every <<project, err>> it can return for a
\* listing (snap) and the config-files label of the first listed container.
FromListing(name, snap, label) ==
  IF Len(snap.listed) = 0
  THEN {Got(fakeProject(name), Nil, FALSE)}
  ELSE UNION {
         IF o.err # Nil THEN {Got(NoProject, o.err, FALSE)}
         ELSE IF IsSentinel(o.paths)
              THEN {Got(MkProject(name, SentinelServices(snap)), Nil, TRUE)}
              ELSE ProjectFromOptions(name)
         : o \in loadProjectOptionsFromLabels(label)}

----------------------------------------------------------------------------
\* Initial state: Down has been called and has done nothing yet.

NotCalled == <<0>>

Init ==
  /\ world \in Worlds
  /\ pc = "start"
  /\ projectName \in ArgNames
  /\ removeOrphans \in BOOLEAN
  /\ project \in {NoProject} \cup UNION {Projects(n) : n \in ProjectNames}
  /\ svcLabel = <<>>
  /\ containers = <<>>
  /\ others = <<>>
  /\ remaining = {}
  /\ current = ""
  /\ batch = <<>>
  /\ loopI = 0
  /\ unit = <<>>
  /\ egErr = Nil
  /\ networks = {}
  /\ netUnit = [n \in NetworkIds |-> "none"]
  /\ result = Running
  /\ events = [c \in ContainerIds |-> <<>>]
  /\ stopReqs = [c \in ContainerIds |-> 0]
  /\ removeReqs = [c \in ContainerIds |-> 0]
  /\ netReqs = [n \in NetworkIds |-> 0]
  /\ inflight = [c \in ContainerIds |-> 0]
  /\ stopFailed = {}
  /\ removeFailed = {}
  /\ removed = {}
  /\ firstFailure = Nil
  /\ doneServices = {}
  /\ handed = NotCalled
  /\ reconEmpty = FALSE
  /\ sentinelTaken = FALSE
  /\ failed = {}
  /\ snapshot = NotCalled
  /\ netListed = FALSE
  /\ netFailed = {}
  /\ netAbsent = {}
  /\ lateReqs = {}
  /\ containerFilter = ""
  /\ networkFilter = ""

\* Groups of variables an action leaves alone.
headVars == <<project, reconEmpty, sentinelTaken, failed, containerFilter, snapshot>>
inputVars == <<world, projectName, removeOrphans>>
walkVars == <<svcLabel, containers, others, remaining, current, doneServices, handed>>
groupVars == <<batch, loopI, unit, egErr>>
containerLog == <<events, stopReqs, removeReqs, inflight, stopFailed, removeFailed, removed,
                  firstFailure>>
netVars == <<networks, netUnit, netReqs, netListed, netFailed, netAbsent, lateReqs,
             networkFilter>>

\* Down returns err.
Return(err) == /\ result' = err
               /\ pc' = "done"

----------------------------------------------------------------------------
\* Down, lines 38-53.

\* Lines 38-44 with a Project supplied: nothing to reconstruct.
DownSupplied ==
  /\ pc = "start"
  /\ ~project.nil
  /\ pc' = "list"
  /\ UNCHANGED <<headVars, result>>
  /\ UNCHANGED <<inputVars, walkVars, groupVars, containerLog, netVars>>

\* Lines 38-44 without a Project: projectFromContainerLabels(projectName).
\* Its ContainerList call fails, or returns a listing.
DownReconstruct ==
  /\ pc = "start"
  /\ project.nil
  /\ \/ /\ Return(LookupError)
        /\ failed' = failed \cup {"reconlist"}
        /\ UNCHANGED <<project, reconEmpty, sentinelTaken, svcLabel>>
     \/ \E snap \in ContainerList, label \in ConfigLabels :
          \E r \in FromListing(projectName, snap, label) :
             /\ svcLabel' = IF r.sentinel THEN Seen(snap) ELSE svcLabel
             /\ reconEmpty' = (Len(snap.listed) = 0)
             /\ sentinelTaken' = r.sentinel
             /\ IF r.err # Nil
                THEN /\ Return(r.err)
                     /\ failed' = failed \cup {QueryOf(r.err)}
                     /\ UNCHANGED project
                ELSE /\ project' = r.project
                     /\ pc' = "list"
                     /\ UNCHANGED <<result, failed>>
  /\ UNCHANGED <<containerFilter, snapshot, containers, others, remaining, current,
                 doneServices, handed>>
  /\ UNCHANGED <<inputVars, groupVars, containerLog, netVars>>

\* What Down's ContainerList returns: an error with no containers, or a
\* snapshot.
ListResults ==
  {[err |-> LookupError, snap |-> [listed |-> <<>>, labels |-> <<>>]]}
  \cup {[err |-> Nil, snap |-> snap] : snap \in ContainerList}

\* The error of the listing dropped.
ListFailedIgnored(err) == FALSE

\* Line 51.
ListFailed(err) == err # Nil

\* Lines 46-53: the containers of options.Project.Name.
DownList ==
  /\ pc = "list"
  /\ containerFilter' = project.name
  /\ \E r \in ListResults :
       IF ListFailed(r.err)
       THEN /\ Return(r.err)
            /\ failed' = failed \cup {"list"}
            /\ UNCHANGED <<containers, svcLabel, snapshot>>
       ELSE /\ containers' = r.snap.listed
            /\ snapshot' = r.snap.listed
            /\ svcLabel' = Seen(r.snap)
            /\ failed' = IF r.err # Nil THEN failed \cup {"list"} ELSE failed
            /\ pc' = "order"
            /\ UNCHANGED result
  /\ UNCHANGED <<project, reconEmpty, sentinelTaken, others, remaining, current,
                 doneServices, handed>>
  /\ UNCHANGED <<inputVars, groupVars, containerLog, netVars>>

----------------------------------------------------------------------------
\* InReverseDependencyOrder, lines 55-63.

\* The error of the walk dropped.
WalkFailedIgnored(err) == FALSE

\* Line 61: the error InReverseDependencyOrder returned is not nil.
WalkFailed(err) == err # Nil

\* The walk starts: a cyclic graph fails it before any action is invoked, and
\* Down returns the error (lines 61-63).
WalkStart ==
  /\ pc = "order"
  /\ LET err == IF HasCycle(project) THEN CycleError ELSE Nil
     IN IF err # Nil
        THEN /\ IF WalkFailed(err) THEN Return(err)
                ELSE pc' = "orphans" /\ UNCHANGED result
             /\ UNCHANGED remaining
        ELSE /\ remaining' = ServiceNamesOf(project)
             /\ pc' = "visit"
             /\ UNCHANGED result
  /\ UNCHANGED <<headVars, svcLabel, containers, others,
                 current, doneServices, handed>>
  /\ UNCHANGED <<inputVars, groupVars, containerLog, netVars>>

\* A service may be visited once every service that depends on it is done.
Visitable(s) == s \in remaining /\ DependentsOf(project, s) \cap remaining = {}

\* removeContainers is entered with cs: a fresh errgroup, the loop not begun.
Enter(cs) ==
  /\ batch' = cs
  /\ loopI' = 0
  /\ unit' = [i \in 1..Len(cs) |-> [pc |-> "idle", target |-> 0]]
  /\ egErr' = Nil
  /\ pc' = "batch"

\* Lines 56-57: the action of service s splits the working set and hands the
\* service's containers to removeContainers.
ServiceAction(s) ==
  /\ pc = "visit"
  /\ Visitable(s)
  /\ current' = s
  /\ others' = split(containers, s)[2]
  /\ Enter(split(containers, s)[1])
  /\ UNCHANGED <<headVars, svcLabel, containers, remaining,
                 doneServices, handed, result>>
  /\ UNCHANGED <<inputVars, containerLog, netVars>>

\* Lines 61-63: every service visited, the walk returns nil.
WalkEnd ==
  /\ pc = "visit"
  /\ remaining = {}
  /\ pc' = "orphans"
  /\ UNCHANGED <<headVars, result>>
  /\ UNCHANGED <<inputVars, walkVars, groupVars, containerLog, netVars>>

----------------------------------------------------------------------------
\* removeContainers, lines 107-128, and stopContainers, lines 92-105.

\* Lines 109-111: one iteration of the loop: the loop variable takes the next
\* container, toDelete copies it, eg.Go starts the unit.
Spawn ==
  /\ pc = "batch"
  /\ loopI < Len(batch)
  /\ loopI' = loopI + 1
  /\ unit' = [unit EXCEPT ![loopI + 1].pc = "ready"]
  /\ UNCHANGED <<pc, headVars, result, batch, egErr>>
  /\ UNCHANGED <<inputVars, walkVars, containerLog, netVars>>

\* toDelete of unit i: the copy made in its own iteration (line 110).
toDelete(i) == batch[i]

\* The container unit i passes to stopContainers (line 113): the loop variable
\* container, shared by all iterations, read when the unit runs.  The loop has
\* reached index loopI by then.
StopTarget(i) == batch[loopI]

\* stopContainers reporting under the event name of its caller (line 112).
stoppedNameOuter(i) == toDelete(i)

\* The container whose name stopContainers puts on its events (line 95): the
\* one it was given.
stoppedName(i) == unit[i].target

\* A group that keeps the error of the unit that failed last.
Latest(err) == err

\* errgroup's Go (lines 112, 85): the group keeps the first error a unit
\* returns.
First(err) == IF egErr = Nil THEN err ELSE egErr

\* Lines 112-113 and 94-97: the unit emits stopping and issues the stop request.
UnitStop(i) ==
  /\ pc = "batch"
  /\ i \in 1..Len(unit)
  /\ unit[i].pc = "ready"
  /\ LET c == StopTarget(i)
     IN /\ unit' = [unit EXCEPT ![i] = [pc |-> "stop", target |-> c]]
        /\ events' = [events EXCEPT ![c] = Append(@, Stopping)]
        /\ stopReqs' = [stopReqs EXCEPT ![c] = @ + 1]
        /\ inflight' = [inflight EXCEPT ![c] = @ + 1]
  /\ UNCHANGED <<pc, headVars, result, batch, loopI, egErr,
                 removeReqs, stopFailed, removeFailed, removed, firstFailure>>
  /\ UNCHANGED <<inputVars, walkVars, netVars>>

\* Lines 97-102 and 114-118: ContainerStop returns.  On an error the unit emits
\* the error event and ends with the error; otherwise it emits stopped and
\* removing and issues the forced remove request for toDelete.
UnitStopReturn(i) ==
  /\ pc = "batch"
  /\ i \in 1..Len(unit)
  /\ unit[i].pc = "stop"
  /\ LET c == unit[i].target
         e == stoppedName(i)
         d == toDelete(i)
     IN \/ /\ unit' = [unit EXCEPT ![i] = [pc |-> "done", target |-> 0]]
           /\ events' = [events EXCEPT ![e] = Append(@, ErrorStopping)]
           /\ inflight' = [inflight EXCEPT ![c] = @ - 1]
           /\ stopFailed' = stopFailed \cup {c}
           /\ egErr' = First(StopError(c))
           /\ firstFailure' = IF firstFailure = Nil THEN StopError(c)
                               ELSE firstFailure
           /\ UNCHANGED removeReqs
        \/ /\ unit' = [unit EXCEPT ![i] = [pc |-> "remove", target |-> 0]]
           /\ events' = [[events EXCEPT ![e] = Append(@, Stopped)]
                            EXCEPT ![d] = Append(@, Removing)]
           /\ inflight' = [[inflight EXCEPT ![c] = @ - 1] EXCEPT ![d] = @ + 1]
           /\ removeReqs' = [removeReqs EXCEPT ![d] = @ + 1]
           /\ UNCHANGED <<stopFailed, egErr, firstFailure>>
  /\ UNCHANGED <<pc, headVars, result, batch, loopI,
                 stopReqs, removeFailed, removed>>
  /\ UNCHANGED <<inputVars, walkVars, netVars>>

\* Lines 118-124: ContainerRemove returns.
UnitRemoveReturn(i) ==
  /\ pc = "batch"
  /\ i \in 1..Len(unit)
  /\ unit[i].pc = "remove"
  /\ LET d == toDelete(i)
     IN /\ unit' = [unit EXCEPT ![i].pc = "done"]
        /\ inflight' = [inflight EXCEPT ![d] = @ - 1]
        /\ \/ /\ events' = [events EXCEPT ![d] = Append(@, ErrorRemoving)]
              /\ removeFailed' = removeFailed \cup {d}
              /\ egErr' = First(RemoveError(d))
              /\ firstFailure' = IF firstFailure = Nil THEN RemoveError(d)
                                  ELSE firstFailure
              /\ UNCHANGED removed
           \/ /\ events' = [events EXCEPT ![d] = Append(@, Removed)]
              /\ removed' = removed \cup {d}
              /\ UNCHANGED <<removeFailed, egErr, firstFailure>>
  /\ UNCHANGED <<pc, headVars, result, batch, loopI,
                 stopReqs, removeReqs, stopFailed>>
  /\ UNCHANGED <<inputVars, walkVars, netVars>>

\* A Wait that never returns once a unit has failed.
WaitReturnsLeak ==
  /\ loopI = Len(batch)
  /\ \A i \in 1..Len(unit) : unit[i].pc = "done"
  /\ egErr = Nil

\* A Wait that returns when the loop has ended, units still running.
WaitReturnsEarly == loopI = Len(batch)

\* Line 127: eg.Wait returns once the loop has ended and every unit has.
WaitReturns ==
  /\ loopI = Len(batch)
  /\ \A i \in 1..Len(unit) : unit[i].pc = "done"

Orphans == "<orphans>"

\* The error of the batch dropped.
BatchFailedIgnored == FALSE

\* Lines 61 and 67: the error removeContainers returned is not nil.
BatchFailed == egErr # Nil

\* Lines 57-63: removeContainers returns into the service action, which
\* narrows the working set and returns the error; an error ends the walk and
\* Down.
ServiceReturn ==
  /\ pc = "batch"
  /\ current # Orphans
  /\ WaitReturns
  /\ containers' = others
  /\ IF BatchFailed
     THEN Return(egErr) /\ UNCHANGED <<remaining, doneServices>>
     ELSE /\ remaining' = remaining \ {current}
          /\ doneServices' = doneServices \cup {current}
          /\ pc' = "visit"
          /\ UNCHANGED result
  /\ UNCHANGED <<headVars, svcLabel, others, current, handed>>
  /\ UNCHANGED <<inputVars, groupVars, containerLog, netVars>>

----------------------------------------------------------------------------
\* Down, lines 65-70: the orphans.

\* The orphans removed whatever options.RemoveOrphans says.
RemovesOrphansAlways == Len(containers) > 0

\* Line 65.
RemovesOrphans == removeOrphans /\ Len(containers) > 0

OrphansStart ==
  /\ pc = "orphans"
  /\ IF RemovesOrphans
     THEN /\ handed' = containers
          /\ current' = Orphans
          /\ Enter(containers)
     ELSE /\ pc' = "netlist"
          /\ UNCHANGED <<handed, current, groupVars>>
  /\ UNCHANGED <<headVars, result, svcLabel, containers,
                 others, remaining, doneServices>>
  /\ UNCHANGED <<inputVars, containerLog, netVars>>

OrphansReturn ==
  /\ pc = "batch"
  /\ current = Orphans
  /\ WaitReturns
  /\ IF BatchFailed
     THEN Return(egErr)
     ELSE pc' = "netlist" /\ UNCHANGED result
  /\ UNCHANGED <<headVars>>
  /\ UNCHANGED <<inputVars, walkVars, groupVars, containerLog, netVars>>

----------------------------------------------------------------------------
\* Down, lines 72-90: the networks.

\* Lines 72-88: the networks of projectName are listed and one unit is
\* started for each.
NetworkList ==
  /\ pc = "netlist"
  /\ netListed' = TRUE
  /\ networkFilter' = projectName
  /\ \/ /\ Return(NetLookupError)
        /\ failed' = failed \cup {"netlist"}
        /\ UNCHANGED <<networks, netUnit, egErr>>
     \/ \E listed \in SUBSET world.ns :
          /\ networks' = listed
          /\ netUnit' = [n \in NetworkIds |-> IF n \in listed THEN "ready" ELSE "none"]
          /\ egErr' = Nil
          /\ pc' = "netwait"
          /\ UNCHANGED <<result, failed>>
  /\ UNCHANGED <<project, reconEmpty, sentinelTaken, containerFilter, snapshot,
                 batch, loopI, unit,
                 netReqs, netFailed, netAbsent, lateReqs>>
  /\ UNCHANGED <<inputVars, walkVars, containerLog>>

\* ensureNetworkDown: the removal request is issued.
NetRemove(n) ==
  /\ pc = "netwait"
  /\ netUnit[n] = "ready"
  /\ netUnit' = [netUnit EXCEPT ![n] = "removing"]
  /\ netReqs' = [netReqs EXCEPT ![n] = @ + 1]
  /\ lateReqs' = IF netFailed # {} THEN lateReqs \cup {n} ELSE lateReqs
  /\ UNCHANGED <<pc, headVars, result, networks,
                 netListed, netFailed, netAbsent, networkFilter>>
  /\ UNCHANGED <<inputVars, walkVars, groupVars, containerLog>>

\* Every answer but success taken for a failure.
ensureNetworkDownStrict(n, answer) == IF answer = "ok" THEN Nil ELSE NetworkError(n)

\* What ensureNetworkDown returns for an answer of the runtime: a network
\* reported as not found counts as removed.
ensureNetworkDown(n, answer) == IF answer = "error" THEN NetworkError(n) ELSE Nil

NetRemoveReturn(n) ==
  /\ pc = "netwait"
  /\ netUnit[n] = "removing"
  /\ netUnit' = [netUnit EXCEPT ![n] = "done"]
  /\ \E answer \in {"ok", "notfound", "error"} :
       /\ egErr' = IF ensureNetworkDown(n, answer) = Nil THEN egErr
                   ELSE First(ensureNetworkDown(n, answer))
       /\ netFailed' = IF answer = "error" THEN netFailed \cup {n} ELSE netFailed
       /\ netAbsent' = IF answer = "notfound" THEN netAbsent \cup {n} ELSE netAbsent
  /\ UNCHANGED <<pc, headVars, result, networks,
                 netListed, netReqs, lateReqs, networkFilter, batch, loopI, unit>>
  /\ UNCHANGED <<inputVars, walkVars, containerLog>>

\* A Wait that returns as soon as a unit has failed.
NetWaitReturnsOnError ==
  \/ egErr # Nil
  \/ \A n \in NetworkIds : netUnit[n] \in {"none", "done"}

\* Line 89: eg.Wait returns once every network unit has.
NetWaitReturns == \A n \in NetworkIds : netUnit[n] \in {"none", "done"}

\* Line 89: Down returns the error of the group.
DownReturn ==
  /\ pc = "netwait"
  /\ NetWaitReturns
  /\ Return(egErr)
  /\ UNCHANGED <<headVars>>
  /\ UNCHANGED <<inputVars, walkVars, groupVars, containerLog, netVars>>

----------------------------------------------------------------------------

Next ==
  \/ DownSupplied
  \/ DownReconstruct
  \/ DownList
  \/ WalkStart
  \/ \E s \in ServiceLabels : ServiceAction(s)
  \/ WalkEnd
  \/ Spawn
  \/ \E i \in ContainerIds : UnitStop(i)
  \/ \E i \in ContainerIds : UnitStopReturn(i)
  \/ \E i \in ContainerIds : UnitRemoveReturn(i)
  \/ ServiceReturn
  \/ OrphansStart
  \/ OrphansReturn
  \/ NetworkList
  \/ \E n \in NetworkIds : NetRemove(n)
  \/ \E n \in NetworkIds : NetRemoveReturn(n)
  \/ DownReturn

Spec == Init /\ [][Next]_vars

\* Every runtime call returns and the Go scheduler runs every goroutine that
\* can run: some step is taken whenever one is possible.
FairSpec == Spec /\ WF_vars(Next)

----------------------------------------------------------------------------
\* Vocabulary of the properties.

Declared == ServiceNamesOf(project)

\* The containers read so far that carry service label s.
OfService(s) == {c \in DOMAIN svcLabel : svcLabel[c] = s}

\* The containers of Down's own listing.
ListedSet == IF snapshot = NotCalled THEN {} ELSE Range(snapshot)

\* The listed containers whose service label is no declared service.
OrphanSeq ==
  IF snapshot = NotCalled THEN <<>>
  ELSE SelectSeq(snapshot, LAMBDA c : svcLabel[c] \notin Declared)

Requested(c) == stopReqs[c] > 0 \/ removeReqs[c] > 0

Touched(c) == Requested(c) \/ events[c] # <<>>

Quiet == \A c \in ContainerIds : ~Touched(c)

NoNetworkRequest == \A n \in NetworkIds : netReqs[n] = 0

ContainerFailure == stopFailed \cup removeFailed # {}

Lifecycle == <<Stopping, Stopped, Removing, Removed>>

\* e is a prefix of the lifecycle, possibly followed by one error event.
IsLifecycle(e) ==
  \E k \in 0..4 :
     \/ e = SubSeq(Lifecycle, 1, k)
     \/ \E x \in {ErrorStopping, ErrorRemoving} : e = Append(SubSeq(Lifecycle, 1, k), x)

----------------------------------------------------------------------------
\* C1: in an acyclic project where service a depends on service b, no stop
\* request is issued and no event emitted for a container of b before the
\* action of a has returned with every call on a's containers returned; no
\* network removal is requested before every declared service is done and no
\* container call is in flight; and a Down none of whose calls failed returns
\* nil.
C1_ReverseDependencyOrder ==
  (~project.nil /\ ~HasCycle(project)) =>
    /\ \A a \in Declared, b \in Declared :
         b \in DepsOf(project, a) =>
           \A cb \in OfService(b) :
              (stopReqs[cb] > 0 \/ events[cb] # <<>>) =>
                /\ a \in doneServices
                /\ \A ca \in OfService(a) : inflight[ca] = 0
    /\ ~NoNetworkRequest =>
         /\ Declared \subseteq doneServices
         /\ \A c \in ContainerIds : inflight[c] = 0
    /\ (pc = "done" /\ failed = {} /\ ~ContainerFailure /\ netFailed = {}) =>
         result = Nil

\* A dependent's container is removed, the container of the service it
\* depends on has been stopped and removed after it, the network is removed
\* and Down has returned nil.
C1_Witness ==
  /\ pc = "done"
  /\ result = Nil
  /\ ~NoNetworkRequest
  /\ ~HasCycle(project)
  /\ \E a \in Declared, b \in Declared :
       /\ b \in DepsOf(project, a)
       /\ \E ca \in OfService(a), cb \in OfService(b) :
            ca \in removed /\ cb \in removed /\ stopReqs[cb] > 0

\* C2: the events emitted under one container's name are a prefix of
\* stopping, stopped, removing, removed, possibly ended by one error event.
C2_EventOrder == \A c \in ContainerIds : IsLifecycle(events[c])

\* C3: a container whose stop call failed has an "Error while Stopping"
\* event, the batch's error is not nil, and the container has no removing or
\* removed event and no remove request.
C3_StopFailure ==
  \A c \in stopFailed :
     /\ ErrorStopping \in Range(events[c])
     /\ egErr # Nil
     /\ Removing \notin Range(events[c])
     /\ Removed \notin Range(events[c])
     /\ removeReqs[c] = 0

\* C4: the project returned from the sentinel path has one service per
\* distinct service-name label of the listing, none with a dependency.
C4_SentinelServices ==
  (sentinelTaken /\ pc = "list") =>
    /\ Declared = {svcLabel[c] : c \in DOMAIN svcLabel}
    /\ Len(project.services) = Cardinality(Declared)
    /\ \A i \in 1..Len(project.services) : project.services[i].deps = {}

\* C5 as stated: after a reconstruction that listed no container, the project
\* has the name and no service, no container is stopped, removed or named in
\* an event, and Down returns nil when the network sweep succeeds.
C5_EmptyReconstruction ==
  reconEmpty =>
    /\ project = MkProject(projectName, <<>>)
    /\ Quiet
    /\ (pc = "done" /\ netListed /\ "netlist" \notin failed /\ netFailed = {}) =>
         result = Nil

\* C5 amended: the containers stay untouched when removeOrphans is false or
\* Down's own listing is empty too.
C5_EmptyReconstructionAmended ==
  reconEmpty =>
    /\ project = MkProject(projectName, <<>>)
    /\ (~removeOrphans \/ ListedSet = {}) => Quiet
    /\ (pc = "done" /\ netListed /\ "netlist" \notin failed /\ netFailed = {}) =>
         result = Nil

\* The reconstruction listed nothing, Down's listing found a container, and
\* Down without removeOrphans swept the network and returned nil.
C5_Witness ==
  /\ reconEmpty
  /\ ~removeOrphans
  /\ ListedSet # {}
  /\ ~NoNetworkRequest
  /\ pc = "done"
  /\ result = Nil

\* C6: without removeOrphans a listed container of no declared service gets
\* no stop request, no remove request and no event.
C6_OrphansUntouched ==
  ~removeOrphans => \A c \in Range(OrphanSeq) : ~Touched(c)

\* Down without removeOrphans has returned, having removed a service's
\* container beside an orphan, or having failed on one.
C6_Witness ==
  /\ ~removeOrphans
  /\ pc = "done"
  /\ OrphanSeq # <<>>
  /\ \E d \in ListedSet : svcLabel[d] \in Declared /\ Touched(d)

\* C7: with removeOrphans the orphan teardown is handed exactly the listed
\* containers of no declared service, no orphan gets a request before every
\* declared service is done, and when Down returns nil each orphan has been
\* stopped and removed.
C7_OrphanTeardown ==
  (removeOrphans /\ ~project.nil) =>
    /\ handed # NotCalled => handed = OrphanSeq
    /\ (handed = NotCalled /\ pc \in {"netlist", "netwait"}) => OrphanSeq = <<>>
    /\ \A c \in Range(OrphanSeq) :
         Requested(c) =>
           /\ Declared \subseteq doneServices
           /\ \A d \in ListedSet \ Range(OrphanSeq) : inflight[d] = 0
    /\ (pc = "done" /\ result = Nil) =>
         \A c \in Range(OrphanSeq) : stopReqs[c] > 0 /\ c \in removed

\* C8: once a container call of a batch has failed, Down is in that batch or
\* has returned its error: no later service is touched, the orphan teardown
\* is not started after a failed service, no network is listed or removed,
\* and the containers of the services done before are removed.
C8_AbortOnBatchFailure ==
  ContainerFailure =>
    /\ pc \in {"batch", "done"}
    /\ pc = "done" => result # Nil
    /\ ~netListed
    /\ NoNetworkRequest
    /\ current # Orphans =>
         /\ handed = NotCalled
         /\ \A s \in remaining \ {current} : \A c \in OfService(s) : ~Touched(c)
    /\ \A s \in doneServices : OfService(s) \cap ListedSet \subseteq removed

\* A service was torn down, the next one failed and Down has returned.
C8_Witness ==
  /\ pc = "done"
  /\ ContainerFailure
  /\ current # Orphans
  /\ \E s \in doneServices : OfService(s) \cap removed # {}

\* C9: a container has an "Error while Stopping" event exactly when a stop
\* call on it failed and an "Error while Removing" event exactly when a
\* remove call on it failed, and after such a failure Down returns the error
\* of a call that failed.
C9_ErrorChannelsAgree ==
  /\ \A c \in ContainerIds :
       /\ c \in stopFailed <=> ErrorStopping \in Range(events[c])
       /\ c \in removeFailed <=> ErrorRemoving \in Range(events[c])
  /\ (pc = "done" /\ ContainerFailure) =>
       \/ result.kind = "stop" /\ result.id \in stopFailed
       \/ result.kind = "remove" /\ result.id \in removeFailed

\* One batch saw a stop call fail on one container and a remove call fail on
\* another, and Down has returned.
C9_Witness ==
  /\ pc = "done"
  /\ stopFailed # {}
  /\ removeFailed # {}
  /\ stopFailed \cap removeFailed = {}

FailureOf(q) == CASE q = "options" -> OptionsError
                  [] q = "parse" -> ParseError
                  [] OTHER -> LookupError

\* C10: when the listing of the reconstruction, the loading or parsing of the
\* declaration, or Down's own listing fails, Down returns that error having
\* issued no stop, remove or network request, listed no network and emitted
\* no event.
C10_QueryFailure ==
  \A q \in failed \cap {"reconlist", "options", "parse", "list"} :
     /\ pc = "done"
     /\ result = FailureOf(q)
     /\ Quiet
     /\ NoNetworkRequest
     /\ ~netListed

\* The project came from the sentinel path and Down's own listing failed.
C10_Witness ==
  /\ sentinelTaken
  /\ failed = {"list"}
  /\ pc = "done"

----------------------------------------------------------------------------
\* The network sweep ran to its end: the networks were listed and Down
\* returned from line 89.
SweepDone == pc = "done" /\ netListed /\ "netlist" \notin failed

\* C11: when the sweep has ended every listed network has had its removal
\* requested, whether or not another removal failed, and Down has returned an
\* error exactly when a removal returned one.
C11_NetworkSweep ==
  /\ \A n \in lateReqs : netFailed # {} /\ n \in networks
  /\ SweepDone =>
       /\ \A n \in networks : netReqs[n] = 1
       /\ \A n \in NetworkIds \ networks : netReqs[n] = 0
       /\ result # Nil <=> netFailed # {}

\* A network's removal failed, the removal of another one was requested
\* after that and did not fail, and Down has returned the error.
C11_Witness ==
  /\ SweepDone
  /\ netFailed # {}
  /\ lateReqs \ netFailed # {}
  /\ result # Nil

\* C12: a network the runtime reports as not found counts as removed: when
\* the sweep has ended with an error, the error is that of a network whose
\* removal failed otherwise, and no not-found answer is among the failures.
C12_AbsentNetworkTolerated ==
  /\ netAbsent \cap netFailed = {}
  /\ (SweepDone /\ result # Nil) =>
       result.kind = "network" /\ result.id \in netFailed

\* Every listed network had been removed already and Down returned nil.
C12_Witness ==
  /\ SweepDone
  /\ networks # {}
  /\ netAbsent = networks
  /\ result = Nil

\* C13: with a cyclic dependency graph Down returns the cycle error after its
\* listing, having issued no stop, remove or network request, emitted no
\* event, started no orphan teardown and listed no network.
C13_CycleAborts ==
  (~project.nil /\ HasCycle(project) /\ snapshot # NotCalled) =>
    /\ pc \in {"order", "done"}
    /\ pc = "done" => result = CycleError
    /\ Quiet
    /\ handed = NotCalled
    /\ doneServices = {}
    /\ ~netListed
    /\ NoNetworkRequest

\* Down has returned the cycle error with containers listed and orphans to
\* remove.
C13_Witness ==
  /\ pc = "done"
  /\ result = CycleError
  /\ ListedSet # {}
  /\ removeOrphans

RECURSIVE Sum(_, _)
Sum(f, S) == IF S = {} THEN 0
             ELSE LET x == CHOOSE y \in S : TRUE IN f[x] + Sum(f, S \ {x})

\* Number of occurrences of event e in the sequence q.
Count(q, e) == Cardinality({i \in 1..Len(q) : q[i] = e})

StopFailures == [c \in ContainerIds |-> Count(events[c], ErrorStopping)]

\* C14: no container receives more than one stop request or more than one
\* remove request, and a container with a remove request has had a stop
\* request that succeeded; once its batch has returned every container of it
\* has had exactly one stop request.
C14_OneStopOneRemove ==
  /\ \A c \in ContainerIds :
       /\ stopReqs[c] <= 1
       /\ removeReqs[c] <= 1
       /\ removeReqs[c] > 0 => Stopped \in Range(events[c])
  /\ pc # "batch" => \A c \in Range(batch) : stopReqs[c] = 1

\* C15: removeContainers returns only when its loop has ended and every unit
\* has finished; by then the batch has had one stop request per unit and one
\* remove request per stop that succeeded, whatever failed meanwhile; the
\* error of the group is that of the unit that failed first, it is what Down
\* returns, and Down goes on only when no unit failed.
C15_WaitAllReportFirst ==
  /\ pc = "batch" => egErr = firstFailure
  /\ pc # "batch" =>
       /\ loopI = Len(batch)
       /\ \A i \in 1..Len(unit) : unit[i].pc = "done"
       /\ Sum(stopReqs, Range(batch)) = Len(batch)
       /\ Sum(removeReqs, Range(batch)) + Sum(StopFailures, Range(batch))
            = Len(batch)
  /\ pc \in {"visit", "orphans", "netlist", "netwait"} => firstFailure = Nil
  /\ (pc = "done" /\ firstFailure # Nil) => result = firstFailure

\* Down has returned the error of a unit of a batch of two, both of whose
\* units failed.
C15_Witness ==
  /\ pc = "done"
  /\ Len(batch) = 2
  /\ result = firstFailure
  /\ firstFailure # Nil
  /\ Sum(StopFailures, Range(batch)) + Cardinality(removeFailed) = 2

\* C16: the networks are listed, and any removal of one requested, only when
\* the walk has finished every service, every container unit started has
\* finished and no stop or remove call is outstanding; no network removal is
\* in flight together with a container call.
C16_NetworksAfterContainers ==
  /\ \A n \in NetworkIds : netReqs[n] > 0 => netListed
  /\ netListed =>
       /\ pc \in {"netwait", "done"}
       /\ remaining = {}
       /\ loopI = Len(batch)
       /\ \A i \in 1..Len(unit) : unit[i].pc = "done"
       /\ \A c \in ContainerIds : inflight[c] = 0

\* A network removal is in flight after a service batch and the orphan batch
\* have removed containers.
C16_Witness ==
  /\ \E n \in NetworkIds : netUnit[n] = "removing"
  /\ doneServices # {}
  /\ handed # NotCalled
  /\ removed # {}

\* C17: the project name that selects the containers Down tears down is the
\* one that selects the networks it removes.
C17_SameProjectName ==
  (containerFilter # "" /\ networkFilter # "") => containerFilter = networkFilter

\* Nothing Down started is still running.
Settled ==
  /\ \A i \in 1..Len(unit) : unit[i].pc \in {"idle", "done"}
  /\ \A n \in NetworkIds : netUnit[n] \in {"none", "done"}
  /\ \A c \in ContainerIds : inflight[c] = 0

\* C18: when every runtime call returns and scheduling is fair, Down
\* eventually returns, with nil or an error, and when it has returned no
\* container unit and no network unit it started is still running.
C18_Terminates ==
  /\ <>(pc = "done" /\ result # Running)
  /\ [](pc = "done" => Settled /\ loopI = Len(batch))

\* Down has returned nil after container units and a network unit have run to
\* their end.
C18_Witness ==
  /\ pc = "done"
  /\ result = Nil
  /\ removed # {}
  /\ \E n \in NetworkIds : netUnit[n] = "done"

====
